---- MODULE Spec2Model ----
(***************************************************************************)
(* asyncgit/src/sync/commits_info.rs: get_commits_info, get_message and    *)
(* limit_str.                                                              *)
(*                                                                         *)
(* A Rust String is modelled as the sequence of its chars (Unicode scalar  *)
(* values), which is what str::chars() iterates; every element of a        *)
(* sequence is one char, named by a TLA+ string.  Option<T> is a record    *)
(* tagged "None" or "Some", Result<T, E> a record tagged "Ok" or "Err".    *)
(***************************************************************************)
EXTENDS Integers, Sequences, FiniteSets, TLC

\* ---------------------------------------------------------------- bounds
NumOids == 3
MaxIds == 3
MaxMsgLen == 2
MaxLimit == 3
MaxStrLen == 4
MaxStrLimit == 4

\* ------------------------------------------------------------ characters
LF == "\n"
CR == "\r"
\* a char whose UTF-8 encoding takes two bytes (U+00E9)
Wide == "U+00E9"

Chars == {"a", Wide, CR, LF}
MsgChars == {"a", LF}

\* all strings of at most n chars over alphabet A
Strs(A, n) == UNION {[1..k -> A] : k \in 0..n}

None == [tag |-> "None"]
Some(v) == [tag |-> "Some", val |-> v]
Ok(v) == [tag |-> "Ok", val |-> v]
Err(kind, what) == [tag |-> "Err", kind |-> kind, what |-> what]
Pending == [tag |-> "Pending"]

\* String::from("<unknown>"), lines 63 and 81
Unknown == <<"<", "u", "n", "k", "n", "o", "w", "n", ">">>

\* ------------------------------------------------------------ limit_str
\* str::split_inclusive('\n'): the pieces of s, each ending with its '\n'
\* (the last piece may lack one); the empty string has no piece.
RECURSIVE split_inclusive(_)
split_inclusive(s) ==
    IF s = <<>> THEN <<>>
    ELSE IF \E k \in 1..Len(s) : s[k] = LF
         THEN LET k == CHOOSE k \in 1..Len(s) :
                          s[k] = LF /\ \A j \in 1..(k - 1) : s[j] # LF
              IN <<SubSeq(s, 1, k)>> \o split_inclusive(SubSeq(s, k + 1, Len(s)))
         ELSE <<s>>

\* mutant: a trailing bare '\r' on a piece without '\n' is stripped as well
strip_line_ending_bare_cr(piece) ==
    LET a == IF piece # <<>> /\ piece[Len(piece)] = LF
             THEN SubSeq(piece, 1, Len(piece) - 1) ELSE piece
    IN IF a # <<>> /\ a[Len(a)] = CR THEN SubSeq(a, 1, Len(a) - 1) ELSE a

\* the closure of str::lines(): strip a final "\n", then a "\r" before it;
\* a piece without "\n" is returned as it is (the documented line endings
\* are "\n" and "\r\n"; a bare "\r" ends no line).
strip_line_ending(piece) ==
    IF piece # <<>> /\ piece[Len(piece)] = LF
    THEN LET a == SubSeq(piece, 1, Len(piece) - 1)
         IN IF a # <<>> /\ a[Len(a)] = CR THEN SubSeq(a, 1, Len(a) - 1) ELSE a
    ELSE piece

\* s.lines()
lines(s) ==
    LET p == split_inclusive(s)
    IN [k \in 1..Len(p) |-> strip_line_ending(p[k])]

\* Iterator::take(limit) on first.chars(), collected
take(cs, limit) ==
    SubSeq(cs, 1, IF limit < Len(cs) THEN limit ELSE Len(cs))

\* number of UTF-8 bytes of a char
Utf8Len(c) == IF c = Wide THEN 2 ELSE 1

RECURSIVE Utf8Bytes(_)
Utf8Bytes(cs) ==
    IF cs = <<>> THEN 0 ELSE Utf8Len(cs[1]) + Utf8Bytes(SubSeq(cs, 2, Len(cs)))

\* mutant: the limit counts bytes, and a char cut by the limit is dropped
limit_str_bytes(s, limit) ==
    IF lines(s) # <<>>
    THEN LET first == lines(s)[1]
             fits == {k \in 0..Len(first) : Utf8Bytes(SubSeq(first, 1, k)) <= limit}
         IN SubSeq(first, 1, CHOOSE k \in fits : \A j \in fits : j <= k)
    ELSE <<>>

limit_str(s, limit) ==
    IF lines(s) # <<>>
    THEN take(lines(s)[1], limit)
    ELSE <<>>

\* mutant: the placeholder is truncated like a message
get_message_limited(c, message_length_limit) ==
    IF c.message.tag = "Some"
    THEN limit_str(c.message.val, message_length_limit)
    ELSE limit_str(Unknown, message_length_limit)

get_message(c, message_length_limit) ==
    IF c.message.tag = "Some"
    THEN limit_str(c.message.val, message_length_limit)
    ELSE Unknown

\* ------------------------------------------------------------- CommitId
CommitId(oid) == [oid |-> oid]
get_oid(cid) == cid.oid

\* ------------------------------------------------------------ the inputs
Oids == 1..NumOids
RepoPaths == {"repo", "nowhere"}
Name == <<"n", "a", "m", "e">>
Authors == {None, Some(<<>>), Some(Name)}
Times == {-1, 1}
Messages == {None} \cup {Some(m) : m \in Strs(MsgChars, MaxMsgLen)}

\* the commits an object database may hold under oid o: any commit under
\* oid 1, one fixed two-line commit under every other oid (its first line
\* is empty under an even oid)
AnyCommit(o) == [id : {o}, message : Messages, author : Authors, time : Times]
FixedCommit(o) ==
    [id |-> o,
     message |-> IF o % 2 = 0 THEN Some(<<LF, "a">>)
                 ELSE Some(<<"a", "a", "a", LF, "a">>),
     author |-> Some(Name), time |-> o]
Odbs ==
    {[o \in Oids |-> IF o = 1 THEN c
                     ELSE IF o \in P THEN Some(FixedCommit(o)) ELSE None] :
        c \in {None} \cup {Some(x) : x \in AnyCommit(1)},
        P \in SUBSET (Oids \ {1})}

VARIABLES
    repo_path,              \* argument repo_path
    odb,                    \* the commits stored at "repo", by oid
    ids,                    \* argument ids
    message_length_limit,   \* argument message_length_limit
    pc,                     \* position in the running call
    repo_open,              \* the Repository value of line 49 is alive
    next_id,                \* position of the iterator ids.iter()
    commits,                \* the Vec<Commit> being collected, lines 51-55
    res,                    \* the Vec<CommitInfo> being collected, lines 57-72
    result,                 \* what the call returned
    events,                 \* the calls made on the repository, in order
    s, limit, limit2,       \* arguments of limit_str and of a second call
    out, out2               \* results of the first and of the second call

batch_vars == <<repo_path, odb, ids, message_length_limit, repo_open,
                next_id, commits, res, result, events>>
str_vars == <<s, limit, limit2, out, out2>>
vars == <<batch_vars, str_vars, pc>>

\* ----------------------------------------------------- get_commits_info
\* Repository::find_commit: the commit stored under id, or the not-found
\* error of the object database, which carries the id looked up
find_commit(db, id) ==
    IF db[id].tag = "Some" THEN Ok(db[id].val) ELSE Err("NotFound", id)

\* mutant: an empty author name is replaced by the placeholder as well
author_of_nonempty(c) ==
    IF c.author.tag = "Some" /\ c.author.val # <<>> THEN c.author.val ELSE Unknown

\* lines 60-64
author_of(c) ==
    IF c.author.tag = "Some" THEN c.author.val ELSE Unknown

\* the closure of lines 58-71
commit_info(c, message_length_limit_) ==
    [message |-> get_message(c, message_length_limit_),
     author |-> author_of(c),
     time |-> c.time,
     id |-> CommitId(c.id)]

InitStrIdle ==
    /\ s = <<>> /\ limit = 0 /\ limit2 = 0 /\ out = <<>> /\ out2 = <<>>

Init ==
    /\ repo_path \in RepoPaths
    /\ odb \in Odbs
    /\ ids \in Strs(Oids, MaxIds)
    /\ message_length_limit \in 0..MaxLimit
    /\ pc = "start"
    /\ repo_open = FALSE
    /\ next_id = 1
    /\ commits = <<>>
    /\ res = <<>>
    /\ result = Pending
    /\ events = <<>>
    /\ InitStrIdle

\* mutant: the failure to open is not propagated, the lookups go on
Open_unchecked ==
    /\ pc = "start"
    /\ events' = Append(events, <<"repo", IF repo_path = "repo" THEN "ok" ELSE "err">>)
    /\ repo_open' = (repo_path = "repo")
    /\ pc' = "lookup"
    /\ UNCHANGED <<repo_path, odb, ids, message_length_limit, next_id,
                   commits, res, result, str_vars>>

\* line 49: let repo = repo(repo_path)?;
Open ==
    /\ pc = "start"
    /\ events' = Append(events, <<"repo", IF repo_path = "repo" THEN "ok" ELSE "err">>)
    /\ IF repo_path = "repo"
       THEN /\ repo_open' = TRUE
            /\ pc' = "lookup"
            /\ UNCHANGED result
       ELSE /\ result' = Err("RepoInaccessible", repo_path)
            /\ pc' = "done"
            /\ UNCHANGED repo_open
    /\ UNCHANGED <<repo_path, odb, ids, message_length_limit, next_id,
                   commits, res, str_vars>>

\* mutant: an identifier that does not resolve is skipped
FindCommit_skip ==
    /\ pc = "lookup"
    /\ next_id <= Len(ids)
    /\ events' = Append(events, <<"find_commit", ids[next_id]>>)
    /\ next_id' = next_id + 1
    /\ LET r == find_commit(odb, ids[next_id])
       IN commits' = IF r.tag = "Ok" THEN Append(commits, r.val) ELSE commits
    /\ UNCHANGED <<repo_path, odb, ids, message_length_limit, repo_open,
                   res, result, pc, str_vars>>

\* mutant: every identifier is looked up and the last failure is reported
FindCommit_last_error ==
    /\ pc = "lookup"
    /\ next_id <= Len(ids)
    /\ events' = Append(events, <<"find_commit", ids[next_id]>>)
    /\ LET r == find_commit(odb, ids[next_id])
           later == \E k \in (next_id + 1)..Len(ids) :
                        find_commit(odb, ids[k]).tag = "Err"
       IN IF r.tag = "Ok" \/ later
          THEN /\ commits' = IF r.tag = "Ok" THEN Append(commits, r.val) ELSE commits
               /\ next_id' = next_id + 1
               /\ UNCHANGED <<result, repo_open, pc>>
          ELSE /\ result' = r
               /\ commits' = <<>>
               /\ repo_open' = FALSE
               /\ pc' = "done"
               /\ UNCHANGED next_id
    /\ UNCHANGED <<repo_path, odb, ids, message_length_limit, res, str_vars>>

\* mutant: a commit already collected is not collected again
FindCommit_dedup ==
    /\ pc = "lookup"
    /\ next_id <= Len(ids)
    /\ events' = Append(events, <<"find_commit", ids[next_id]>>)
    /\ LET r == find_commit(odb, ids[next_id])
       IN IF r.tag = "Ok"
          THEN /\ commits' = IF \E k \in 1..Len(commits) : commits[k] = r.val
                             THEN commits ELSE Append(commits, r.val)
               /\ next_id' = next_id + 1
               /\ UNCHANGED <<result, repo_open, pc>>
          ELSE /\ result' = r
               /\ commits' = <<>>
               /\ repo_open' = FALSE
               /\ pc' = "done"
               /\ UNCHANGED next_id
    /\ UNCHANGED <<repo_path, odb, ids, message_length_limit, res, str_vars>>

\* lines 51-54, one step of the collect: the next identifier is looked up;
\* the first Err ends the collect, drops the commits collected so far and
\* is returned by the ? of line 54
FindCommit ==
    /\ pc = "lookup"
    /\ next_id <= Len(ids)
    /\ events' = Append(events, <<"find_commit", ids[next_id]>>)
    /\ LET r == find_commit(odb, ids[next_id])
       IN IF r.tag = "Ok"
          THEN /\ commits' = Append(commits, r.val)
               /\ next_id' = next_id + 1
               /\ UNCHANGED <<result, repo_open, pc>>
          ELSE /\ result' = r
               /\ commits' = <<>>
               /\ repo_open' = FALSE
               /\ pc' = "done"
               /\ UNCHANGED next_id
    /\ UNCHANGED <<repo_path, odb, ids, message_length_limit, res, str_vars>>

\* lines 54-55: ids.iter() is exhausted, the Vec<Commit> is complete
Collected ==
    /\ pc = "lookup"
    /\ next_id > Len(ids)
    /\ pc' = "project"
    /\ UNCHANGED <<batch_vars, str_vars>>

\* lines 57-72, one step of the collect: the next commit is projected
Project ==
    /\ pc = "project"
    /\ Len(res) < Len(commits)
    /\ LET c == commits[Len(res) + 1]
       IN /\ res' = Append(res, commit_info(c, message_length_limit))
          /\ events' = Append(events, <<"project", c.id>>)
    /\ UNCHANGED <<repo_path, odb, ids, message_length_limit, repo_open,
                   next_id, commits, result, pc, str_vars>>

\* line 74: Ok(res); the repository is dropped
Return ==
    /\ pc = "project"
    /\ Len(res) = Len(commits)
    /\ result' = Ok(res)
    /\ repo_open' = FALSE
    /\ pc' = "done"
    /\ UNCHANGED <<repo_path, odb, ids, message_length_limit, next_id,
                   commits, res, events, str_vars>>

Next == Open \/ FindCommit \/ Collected \/ Project \/ Return

Spec == Init /\ [][Next]_vars

\* ------------------------------------------ limit_str called on its own
InitBatchIdle ==
    /\ repo_path = "repo"
    /\ odb = [o \in Oids |-> None]
    /\ ids = <<>>
    /\ message_length_limit = 0
    /\ repo_open = FALSE
    /\ next_id = 1
    /\ commits = <<>>
    /\ res = <<>>
    /\ result = Pending
    /\ events = <<>>

InitLimit ==
    /\ s \in Strs(Chars, MaxStrLen)
    /\ limit \in 0..MaxStrLimit
    /\ limit2 \in 0..(MaxStrLimit + 1)
    /\ out = <<>>
    /\ out2 = <<>>
    /\ pc = "limit"
    /\ InitBatchIdle

\* limit_str(s, limit), as called at line 79
Truncate ==
    /\ pc = "limit"
    /\ out' = limit_str(s, limit)
    /\ pc' = "again"
    /\ UNCHANGED <<s, limit, limit2, out2, batch_vars>>

\* limit_str applied to the message it returned
Retruncate ==
    /\ pc = "again"
    /\ out2' = limit_str(out, limit2)
    /\ pc' = "end"
    /\ UNCHANGED <<s, limit, limit2, out, batch_vars>>

NextLimit == Truncate \/ Retruncate

SpecLimit == InitLimit /\ [][NextLimit]_vars

\* ------------------------------------------------------------ properties
Resolves(id) == odb[id].tag = "Some"
AllResolve == \A k \in 1..Len(ids) : Resolves(ids[k])
Unresolved == {k \in 1..Len(ids) : ~Resolves(ids[k])}
FirstUnresolved == CHOOSE k \in Unresolved : \A j \in Unresolved : k <= j
Returned == pc = "done" /\ result.tag = "Ok"
IsPrefix(p, q) == Len(p) <= Len(q) /\ p = SubSeq(q, 1, Len(p))

\* C1: when the repository opens and every identifier resolves, the call
\* succeeds with exactly Len(ids) summaries and the k-th summary carries the
\* k-th identifier (nothing dropped, deduplicated or reordered).
C1_OrderAndCardinality ==
    (pc = "done" /\ repo_path = "repo" /\ AllResolve) =>
        /\ result.tag = "Ok"
        /\ Len(result.val) = Len(ids)
        /\ \A k \in 1..Len(ids) : get_oid(result.val[k].id) = ids[k]

C1_Witness ==
    /\ Returned
    /\ Len(ids) = 3 /\ ids[1] = ids[3] /\ ids[1] > ids[2]
    /\ Len(result.val) = 3

\* C2: when some identifier does not resolve, the finished call returned an
\* error and holds no summary and no commit, wherever the identifier stands.
C2_AllOrNothing ==
    (pc = "done" /\ ~AllResolve) =>
        /\ result.tag = "Err"
        /\ res = <<>>
        /\ commits = <<>>

C2_Witness ==
    /\ pc = "done" /\ repo_path = "repo"
    /\ Len(ids) = 3 /\ Unresolved = {3}
    /\ result.tag = "Err"

\* C3: when the repository opens and some identifier does not resolve, the
\* error is the not-found error of the first unresolvable identifier in input
\* order.
C3_FirstFailureNamed ==
    (pc = "done" /\ repo_path = "repo" /\ ~AllResolve) =>
        result = Err("NotFound", ids[FirstUnresolved])

C3_Witness ==
    /\ pc = "done" /\ repo_path = "repo"
    /\ Len(ids) = 3 /\ Unresolved = {2, 3} /\ ids[2] # ids[3]
    /\ result = Err("NotFound", ids[2])

\* C4: every lookup and every projection comes after a successful open, and
\* a call whose open failed returned the repository-inaccessible error
\* having made no other call on the repository.
C4_OpenBeforeLookup ==
    /\ \A k \in 1..Len(events) :
           events[k][1] \in {"find_commit", "project"} =>
               k > 1 /\ events[1] = <<"repo", "ok">>
    /\ (pc = "done" /\ repo_path # "repo") =>
           /\ result = Err("RepoInaccessible", repo_path)
           /\ events = <<<<"repo", "err">>>>
           /\ res = <<>> /\ commits = <<>>

C4_Witness ==
    /\ pc = "done" /\ repo_path # "repo"
    /\ Len(ids) = 2 /\ Unresolved = {2}
    /\ result.kind = "RepoInaccessible"

\* C5: every returned message has at most message_length_limit chars.
C5_MessageWithinLimit ==
    Returned =>
        \A k \in 1..Len(result.val) :
            Len(result.val[k].message) <= message_length_limit

\* C7: the author of a summary is "<unknown>" when the commit records no
\* author name, and the recorded name unchanged when it records one.
C7_AuthorFallback ==
    Returned =>
        \A k \in 1..Len(result.val) :
            LET a == odb[ids[k]].val.author
            IN IF a.tag = "None"
               THEN result.val[k].author = Unknown
               ELSE result.val[k].author = a.val

C7_Witness ==
    /\ Returned
    /\ Len(ids) = 2
    /\ odb[ids[1]].val.author = None /\ odb[ids[2]].val.author = Some(Name)
    /\ result.val[1].author = Unknown /\ result.val[2].author = Name

\* C8: no returned author is the empty string.
C8_AuthorNeverEmpty ==
    Returned =>
        \A k \in 1..Len(result.val) : result.val[k].author # <<>>

\* C9: a commit without message yields exactly "<unknown>"; a commit with a
\* message yields a prefix of that message and never the placeholder, and the
\* empty string when the message or its first line is empty.
C9_MessageFallback ==
    Returned =>
        \A k \in 1..Len(result.val) :
            LET m == odb[ids[k]].val.message
                got == result.val[k].message
            IN IF m.tag = "None"
               THEN got = Unknown
               ELSE /\ got # Unknown
                    /\ IsPrefix(got, m.val)
                    /\ (m.val = <<>> \/ m.val[1] = LF) => got = <<>>

C9_Witness ==
    /\ Returned
    /\ Len(ids) = 2
    /\ message_length_limit = 0
    /\ odb[ids[1]].val.message = None
    /\ odb[ids[2]].val.message = Some(<<LF, "a">>)
    /\ result.val[1].message = Unknown
    /\ result.val[2].message = <<>>

\* the text of t before its first line break ("\n" or "\r\n"), all of t when
\* it has none
LineBreaks(t) == {k \in 1..Len(t) : t[k] = LF}
FirstBreak(t) == CHOOSE k \in LineBreaks(t) : \A j \in LineBreaks(t) : k <= j
FirstLine(t) ==
    IF LineBreaks(t) = {} THEN t
    ELSE LET b == FirstBreak(t)
         IN IF b > 1 /\ t[b - 1] = CR THEN SubSeq(t, 1, b - 2)
            ELSE SubSeq(t, 1, b - 1)
Min(a, b) == IF a <= b THEN a ELSE b

\* C6: limit_str(s, limit) is the prefix of Min(limit, n) chars of the first
\* line of s (n its number of chars): it holds no line break, is the whole
\* first line when n <= limit, and stays the same whatever follows the first
\* line break.
C6_FirstLinePrefix ==
    pc # "limit" =>
        LET line == FirstLine(s)
            n == Len(line)
        IN /\ Len(out) = Min(limit, n)
           /\ out = SubSeq(line, 1, Min(limit, n))
           /\ \A k \in 1..Len(out) : out[k] # LF
           /\ n <= limit => out = line
           /\ LineBreaks(s) # {} =>
                  \A t \in Strs(Chars, 2) :
                      limit_str(SubSeq(s, 1, FirstBreak(s)) \o t, limit) = out

C6_Witness ==
    /\ pc = "again"
    /\ s = <<Wide, Wide, LF, "a">>
    /\ limit = 1
    /\ out = <<Wide>>

\* C10: a second limit_str with the same or a larger limit returns the
\* message the first one returned.
C10_Idempotent ==
    (pc = "end" /\ limit2 >= limit) => out2 = out

C10_Witness ==
    /\ pc = "end"
    /\ limit2 > limit
    /\ Len(FirstLine(s)) > limit
    /\ out # <<>> /\ out[Len(out)] = CR
    /\ out2 = out

====
